---- MODULE Spec2Model ----
(***************************************************************************)
(* Clip playback scheduling engine of ReaLearn (ClipPcmSource).            *)
(*                                                                         *)
(* Units.  The source computes in f64 seconds; the model computes in       *)
(* integers on a grid on which every operation of the source is exact:     *)
(*   - time (positions, durations, countdowns): ticks of 1.25 ms, so the   *)
(*     fade length of 0.01 s is 8 ticks;                                   *)
(*   - tempo factors: quarters (0.25 = 1, 1.0 = 4);                        *)
(*   - tempo: beats per minute;                                            *)
(*   - proportional positions (UnitValue): halves (0.5 = 1, 1.0 = 2).      *)
(* The inputs are drawn from sets on which the divisions below have no     *)
(* remainder, so integer division is the real division of the source.      *)
(* Floating-point rounding is not modelled.                                *)
(***************************************************************************)
EXTENDS Integers, FiniteSets, Sequences, TLC

VARIABLES
    state,                \* ClipPcmSource.state: ClipState
    repetition,           \* ClipPcmSource.repetition: Repetition
    manual_tempo_factor,  \* ClipPcmSource.manual_tempo_factor, in quarters
    is_midi,              \* InnerSource.is_midi, fixed at construction
    block,                \* the block of the get_samples call that just
                          \* returned: its BlockInfo.stop_countdown and what
                          \* was put into it (NoBlock after any other call)
    last_op,              \* the operation called last
    steady,               \* history: a control operation or a finished
                          \* suspension put the clip into ScheduledOrPlaying at
                          \* position 0 without stop instruction, and since then
                          \* blocks were rendered at final tempo factor 1.0 and
                          \* no call changed anything
    cycle,                \* history: passes through the clip that the steady
                          \* run has completed (0 when not steady)
    found,                \* history: the kind of state the last call found,
                          \* and the reason if it was a suspension
    faded,                \* history: duration of the blocks rendered so far
                          \* in the current suspension (0 when not suspending)
    recorder,             \* Recorder.state: State (clip-engine supplier)
    recorder_result,      \* what the last Recorder call returned
    recorder_op,          \* the Recorder operation called last
    sources_created,      \* sources and sinks created so far; the next one
                          \* created gets this number as its identity
    discarded,            \* history: the old source that the last successful
                          \* commit_recording dropped, until the next
                          \* prepare_recording
    fade_calculator,      \* a FadeCalculator (its five fields)
    fade_pos,             \* the current_pos of the last calculate_fade_factor
    fade_factor           \* what that call returned, as a fraction

clip_vars == <<state, repetition, manual_tempo_factor, is_midi, block, last_op,
               steady, cycle, found, faded>>

recorder_vars == <<recorder, recorder_result, recorder_op, sources_created,
                   discarded>>

fade_vars == <<fade_calculator, fade_pos, fade_factor>>

vars == <<clip_vars, recorder_vars, fade_vars>>

---------------------------------------------------------------------------
(* Bounds of the model *)

\* Block durations are 4, 8, ... 4 * MaxBlockQuanta ticks.
MaxBlockQuanta == 1
\* Timeline cursor, start and stop positions are 0, 8, ... 8 * MaxPosQuanta ticks.
MaxPosQuanta == 1
\* The native clip length is 8 * ClipGrains ticks.
ClipGrains == 1
\* The cycle history counter stops counting here.
MaxCycle == 2

(* Program constants *)

\* InnerSource::original_tempo, bpm
original_tempo == 96
\* MIN_TEMPO_FACTOR = 0.25, in quarters
MIN_TEMPO_FACTOR == 1
\* start_end_fade_length() = 0.01 s, in ticks
start_end_fade_length == 8
\* controller_numbers::ALL_NOTES_OFF and ALL_SOUND_OFF
ALL_NOTES_OFF == 123
ALL_SOUND_OFF == 120

(* Input sets *)

BlockDurations == {4 * k : k \in 1..MaxBlockQuanta}
Positions == {8 * i : i \in 0..MaxPosQuanta}
Tempos == {48, 96}
TempoFactorInputs == {0, 4}
UnitValues == {0, 1, 2}
MidiChannels == 0..15

\* inner.source.get_length() of the wrapped source, in ticks
native_clip_length == 8 * ClipGrains

Min(a, b) == IF a <= b THEN a ELSE b

---------------------------------------------------------------------------
(* Values *)

None == [some |-> FALSE]
Some(v) == [some |-> TRUE, value |-> v]

Infinitely == [tag |-> "Infinitely"]
Times(n) == [tag |-> "Times", n |-> n]

In(c) == [tag |-> "In", countdown |-> c]
AtEndOfCycle(n) == [tag |-> "AtEndOfCycle", cycle |-> n]

At(p) == [tag |-> "At", pos |-> p]
AtEndOfClip == [tag |-> "AtEndOfClip"]

Retrigger == [tag |-> "Retrigger"]
PauseReason == [tag |-> "Pause"]
StopReason == [tag |-> "Stop"]
PlayWhileSuspending(p) == [tag |-> "PlayWhileSuspending", next_block_pos |-> p]

PlayInfo(p) == [next_block_pos |-> p]

Stopped == [kind |-> "Stopped"]
ScheduledOrPlaying(pi, si) ==
    [kind |-> "ScheduledOrPlaying", play_info |-> pi, stop_instruction |-> si]
Suspending(r, pi, cd) ==
    [kind |-> "Suspending", reason |-> r, play_info |-> pi,
     transition_countdown |-> cd]
Paused(p) == [kind |-> "Paused", next_block_pos |-> p]

---------------------------------------------------------------------------
(* Repetition and StopInstruction *)

from_bool(repeated) == IF repeated THEN Infinitely ELSE Times(1)

to_stop_instruction(rep) ==
    IF rep.tag = "Infinitely" THEN None
    ELSE Some(AtEndOfCycle((IF rep.n >= 1 THEN rep.n ELSE 1) - 1))

\* Mutant of count_down_by: the countdown is left as it is.
count_down_by_nothing(si, duration) == si

count_down_by(si, duration) ==
    IF si.tag = "In"
    THEN LET next_countdown == si.countdown - duration
         IN IF next_countdown < 0 THEN In(0) ELSE In(next_countdown)
    ELSE si

---------------------------------------------------------------------------
(* Tempo and length *)

calc_final_tempo_factor(mtf, timeline_tempo) ==
    LET product == mtf * timeline_tempo
    IN IF product < MIN_TEMPO_FACTOR * original_tempo
       THEN MIN_TEMPO_FACTOR
       ELSE product \div original_tempo

clip_length(mtf, timeline_tempo) ==
    (native_clip_length * 4) \div calc_final_tempo_factor(mtf, timeline_tempo)

---------------------------------------------------------------------------
(* CursorInfo and CursorAndLengthInfo *)

has_started_already(pi) == pi.next_block_pos >= 0

\* (next_block_pos / clip_length) as u32: the cast truncates and saturates at 0
current_hypothetical_cycle_index(pi, len) ==
    IF pi.next_block_pos < 0 THEN 0 ELSE pi.next_block_pos \div len

current_cycle_index(pi, len, rep) ==
    LET cycle_index == current_hypothetical_cycle_index(pi, len)
    IN IF rep.tag = "Infinitely" THEN Some(cycle_index)
       ELSE IF cycle_index < rep.n THEN Some(cycle_index) ELSE None

\* Mutant of determine_stop_instruction: a stop position that lies behind the
\* cursor is clamped to a countdown of zero instead of being refused.
determine_stop_instruction_clamping(pi, len, rep, timeline_cursor_pos, pos) ==
    IF pos.tag = "At"
    THEN LET countdown == pos.pos - timeline_cursor_pos
         IN IF countdown < 0 THEN Some(In(0)) ELSE Some(In(countdown))
    ELSE LET current_cycle == current_cycle_index(pi, len, rep)
         IN IF current_cycle.some THEN Some(AtEndOfCycle(current_cycle.value))
            ELSE None

\* Mutant of determine_stop_instruction: the countdown to a position behind the
\* cursor is taken as it is.
determine_stop_instruction_unchecked(pi, len, rep, timeline_cursor_pos, pos) ==
    IF pos.tag = "At"
    THEN Some(In(pos.pos - timeline_cursor_pos))
    ELSE LET current_cycle == current_cycle_index(pi, len, rep)
         IN IF current_cycle.some THEN Some(AtEndOfCycle(current_cycle.value))
            ELSE None

determine_stop_instruction(pi, len, rep, timeline_cursor_pos, pos) ==
    IF pos.tag = "At"
    THEN LET countdown == pos.pos - timeline_cursor_pos
         IN IF countdown < 0 THEN None ELSE Some(In(countdown))
    ELSE LET current_cycle == current_cycle_index(pi, len, rep)
         IN IF current_cycle.some THEN Some(AtEndOfCycle(current_cycle.value))
            ELSE None

\* Mutant of resolve_stop_instruction: the clamp at zero left out.
resolve_stop_instruction_unclamped(pi, len, si) ==
    IF si.tag = "In" THEN si.countdown
    ELSE len * (si.cycle + 1) - pi.next_block_pos

resolve_stop_instruction(pi, len, si) ==
    IF si.tag = "In" THEN si.countdown
    ELSE LET requested_end_pos == len * (si.cycle + 1)
             duration == requested_end_pos - pi.next_block_pos
         IN IF duration < 0 THEN 0 ELSE duration

\* Mutant of effective_stop_countdown: the later of the two stops wins.
effective_stop_countdown_latest(pi, len, rep, scheduled_stop) ==
    LET natural_stop == to_stop_instruction(rep)
        resolved == {resolve_stop_instruction(pi, len, o.value) :
                        o \in {x \in {natural_stop, scheduled_stop} : x.some}}
    IN IF resolved = {} THEN None
       ELSE Some(CHOOSE m \in resolved : \A r \in resolved : m >= r)

effective_stop_countdown(pi, len, rep, scheduled_stop) ==
    LET natural_stop == to_stop_instruction(rep)
        resolved == {resolve_stop_instruction(pi, len, o.value) :
                        o \in {x \in {natural_stop, scheduled_stop} : x.some}}
    IN IF resolved = {} THEN None
       ELSE Some(CHOOSE m \in resolved : \A r \in resolved : m <= r)

---------------------------------------------------------------------------
(* Control operations: the next clip state as a function of the current one *)

\* Mutant of schedule_start_internal: the operands of the subtraction swapped.
schedule_start_internal_swapped(timeline_cursor_pos, start_pos, repeated) ==
    [state |-> ScheduledOrPlaying(PlayInfo(start_pos - timeline_cursor_pos), None),
     repetition |-> from_bool(repeated)]

schedule_start_internal(timeline_cursor_pos, start_pos, repeated) ==
    [state |-> ScheduledOrPlaying(PlayInfo(timeline_cursor_pos - start_pos), None),
     repetition |-> from_bool(repeated)]

\* Mutant of start_internal: the check for a scheduled stop left out, so that a
\* playing clip that is scheduled to stop is retriggered.
start_internal_without_backpedal(s, rep, timeline_cursor_pos, start_pos, repeated) ==
    CASE s.kind = "Stopped" ->
            schedule_start_internal(timeline_cursor_pos, start_pos, repeated)
      [] s.kind = "ScheduledOrPlaying" ->
            IF has_started_already(s.play_info)
            THEN [state |-> Suspending(Retrigger, s.play_info,
                                       start_end_fade_length),
                  repetition |-> rep]
            ELSE schedule_start_internal(timeline_cursor_pos, start_pos,
                                         repeated)
      [] s.kind = "Suspending" ->
            [state |-> Suspending(
                           PlayWhileSuspending(timeline_cursor_pos - start_pos),
                           s.play_info, s.transition_countdown),
             repetition |-> from_bool(repeated)]
      [] s.kind = "Paused" ->
            [state |-> ScheduledOrPlaying(PlayInfo(s.next_block_pos), None),
             repetition |-> rep]

\* Mutant of start_internal: a start request that arrives during a suspension
\* is dropped.
start_internal_dropping_while_suspending(s, rep, timeline_cursor_pos, start_pos, repeated) ==
    CASE s.kind = "Stopped" ->
            schedule_start_internal(timeline_cursor_pos, start_pos, repeated)
      [] s.kind = "ScheduledOrPlaying" ->
            IF s.stop_instruction.some
            THEN [state |-> ScheduledOrPlaying(s.play_info, None), repetition |-> rep]
            ELSE IF has_started_already(s.play_info)
                 THEN [state |-> Suspending(Retrigger, s.play_info,
                                            start_end_fade_length),
                       repetition |-> rep]
                 ELSE schedule_start_internal(timeline_cursor_pos, start_pos,
                                              repeated)
      [] s.kind = "Suspending" -> [state |-> s, repetition |-> rep]
      [] s.kind = "Paused" ->
            [state |-> ScheduledOrPlaying(PlayInfo(s.next_block_pos), None),
             repetition |-> rep]

\* Mutant of start_internal: a paused clip is scheduled anew instead of resumed.
start_internal_rescheduling_paused(s, rep, timeline_cursor_pos, start_pos, repeated) ==
    CASE s.kind \in {"Stopped", "Paused"} ->
            schedule_start_internal(timeline_cursor_pos, start_pos, repeated)
      [] s.kind = "ScheduledOrPlaying" ->
            IF s.stop_instruction.some
            THEN [state |-> ScheduledOrPlaying(s.play_info, None), repetition |-> rep]
            ELSE IF has_started_already(s.play_info)
                 THEN [state |-> Suspending(Retrigger, s.play_info,
                                            start_end_fade_length),
                       repetition |-> rep]
                 ELSE schedule_start_internal(timeline_cursor_pos, start_pos,
                                              repeated)
      [] s.kind = "Suspending" ->
            [state |-> Suspending(
                           PlayWhileSuspending(timeline_cursor_pos - start_pos),
                           s.play_info, s.transition_countdown),
             repetition |-> from_bool(repeated)]

start_internal(s, rep, timeline_cursor_pos, start_pos, repeated) ==
    CASE s.kind = "Stopped" ->
            schedule_start_internal(timeline_cursor_pos, start_pos, repeated)
      [] s.kind = "ScheduledOrPlaying" ->
            IF s.stop_instruction.some
            THEN \* Playing already and scheduled for stop. Backpedal!
                 [state |-> ScheduledOrPlaying(s.play_info, None), repetition |-> rep]
            ELSE IF has_started_already(s.play_info)
                 THEN \* Already playing. Retrigger!
                      [state |-> Suspending(Retrigger, s.play_info,
                                            start_end_fade_length),
                       repetition |-> rep]
                 ELSE \* Not yet playing. Reschedule!
                      schedule_start_internal(timeline_cursor_pos, start_pos,
                                              repeated)
      [] s.kind = "Suspending" ->
            [state |-> Suspending(
                           PlayWhileSuspending(timeline_cursor_pos - start_pos),
                           s.play_info, s.transition_countdown),
             repetition |-> from_bool(repeated)]
      [] s.kind = "Paused" ->
            \* Resume
            [state |-> ScheduledOrPlaying(PlayInfo(s.next_block_pos), None),
             repetition |-> rep]

\* Mutant of pause: the count-in check left out.
pause_without_started_check(s, timeline_cursor_pos) ==
    CASE s.kind \in {"Stopped", "Paused"} -> s
      [] s.kind = "ScheduledOrPlaying" ->
            Suspending(PauseReason, s.play_info, start_end_fade_length)
      [] s.kind = "Suspending" ->
            IF s.reason # PauseReason
            THEN Suspending(PauseReason, s.play_info, s.transition_countdown)
            ELSE s

\* Mutant of pause: a suspension that is under way is not retargeted.
pause_not_retargeting(s, timeline_cursor_pos) ==
    CASE s.kind \in {"Stopped", "Paused", "Suspending"} -> s
      [] s.kind = "ScheduledOrPlaying" ->
            IF has_started_already(s.play_info)
            THEN Suspending(PauseReason, s.play_info, start_end_fade_length)
            ELSE s

\* Mutant of pause: a clip that is scheduled to stop is left playing.
pause_ignored_when_stopping(s, timeline_cursor_pos) ==
    CASE s.kind \in {"Stopped", "Paused"} -> s
      [] s.kind = "ScheduledOrPlaying" ->
            IF has_started_already(s.play_info) /\ ~s.stop_instruction.some
            THEN Suspending(PauseReason, s.play_info, start_end_fade_length)
            ELSE s
      [] s.kind = "Suspending" ->
            IF s.reason # PauseReason
            THEN Suspending(PauseReason, s.play_info, s.transition_countdown)
            ELSE s

pause(s, timeline_cursor_pos) ==
    CASE s.kind \in {"Stopped", "Paused"} -> s
      [] s.kind = "ScheduledOrPlaying" ->
            IF has_started_already(s.play_info)
            THEN Suspending(PauseReason, s.play_info, start_end_fade_length)
            ELSE s
      [] s.kind = "Suspending" ->
            IF s.reason # PauseReason
            THEN Suspending(PauseReason, s.play_info, s.transition_countdown)
            ELSE s

\* Mutant of schedule_stop: a stop instruction that is already set is replaced.
schedule_stop_replacing(s, rep, mtf, timeline_cursor_pos, timeline_tempo, pos) ==
    CASE s.kind = "Stopped" -> s
      [] s.kind = "ScheduledOrPlaying" ->
            IF has_started_already(s.play_info)
            THEN LET next_stop_instruction ==
                         determine_stop_instruction(
                             s.play_info, clip_length(mtf, timeline_tempo),
                             rep, timeline_cursor_pos, pos)
                 IN IF next_stop_instruction.some
                    THEN ScheduledOrPlaying(s.play_info, next_stop_instruction)
                    ELSE Stopped
            ELSE Stopped
      [] s.kind = "Paused" -> Stopped
      [] s.kind = "Suspending" -> s

\* Mutant of schedule_stop: a stop is scheduled during the count-in as well.
schedule_stop_in_count_in(s, rep, mtf, timeline_cursor_pos, timeline_tempo, pos) ==
    CASE s.kind = "Stopped" -> s
      [] s.kind = "ScheduledOrPlaying" ->
            IF s.stop_instruction.some
            THEN s
            ELSE LET next_stop_instruction ==
                         determine_stop_instruction(
                             s.play_info, clip_length(mtf, timeline_tempo),
                             rep, timeline_cursor_pos, pos)
                 IN IF next_stop_instruction.some
                    THEN ScheduledOrPlaying(s.play_info, next_stop_instruction)
                    ELSE Stopped
      [] s.kind = "Paused" -> Stopped
      [] s.kind = "Suspending" -> s

schedule_stop(s, rep, mtf, timeline_cursor_pos, timeline_tempo, pos) ==
    CASE s.kind = "Stopped" -> s
      [] s.kind = "ScheduledOrPlaying" ->
            IF s.stop_instruction.some
            THEN \* Already scheduled for stop.
                 s
            ELSE IF has_started_already(s.play_info)
                 THEN LET next_stop_instruction ==
                              determine_stop_instruction(
                                  s.play_info, clip_length(mtf, timeline_tempo),
                                  rep, timeline_cursor_pos, pos)
                      IN IF next_stop_instruction.some
                         THEN ScheduledOrPlaying(s.play_info, next_stop_instruction)
                         ELSE \* Looks like we were actually not playing after all.
                              Stopped
                 ELSE \* Not yet playing. Backpedal.
                      Stopped
      [] s.kind = "Paused" -> Stopped
      [] s.kind = "Suspending" -> s

\* Mutant of stop_immediately: a playing clip is stopped without fade-out.
stop_immediately_without_fade(s, timeline_cursor_pos) ==
    CASE s.kind = "Stopped" -> s
      [] s.kind = "ScheduledOrPlaying" -> Stopped
      [] s.kind = "Suspending" ->
            IF s.reason # StopReason
            THEN Suspending(StopReason, s.play_info, s.transition_countdown)
            ELSE s
      [] s.kind = "Paused" -> Stopped

\* Mutant of stop_immediately: retargeting a suspension starts the fade-out
\* anew.
stop_immediately_resetting_fade(s, timeline_cursor_pos) ==
    CASE s.kind = "Stopped" -> s
      [] s.kind = "ScheduledOrPlaying" ->
            IF s.stop_instruction.some \/ has_started_already(s.play_info)
            THEN Suspending(StopReason, s.play_info, start_end_fade_length)
            ELSE Stopped
      [] s.kind = "Suspending" ->
            IF s.reason # StopReason
            THEN Suspending(StopReason, s.play_info, start_end_fade_length)
            ELSE s
      [] s.kind = "Paused" -> Stopped

\* Mutant of stop_immediately: a clip in count-in is faded out like a playing
\* one.
stop_immediately_fading_count_in(s, timeline_cursor_pos) ==
    CASE s.kind = "Stopped" -> s
      [] s.kind = "ScheduledOrPlaying" ->
            Suspending(StopReason, s.play_info, start_end_fade_length)
      [] s.kind = "Suspending" ->
            IF s.reason # StopReason
            THEN Suspending(StopReason, s.play_info, s.transition_countdown)
            ELSE s
      [] s.kind = "Paused" -> Stopped

\* Mutant of stop_immediately: a clip that is already suspending for stop is
\* stopped at once.
stop_immediately_cutting_fade(s, timeline_cursor_pos) ==
    CASE s.kind = "Stopped" -> s
      [] s.kind = "ScheduledOrPlaying" ->
            IF s.stop_instruction.some \/ has_started_already(s.play_info)
            THEN Suspending(StopReason, s.play_info, start_end_fade_length)
            ELSE Stopped
      [] s.kind = "Suspending" ->
            IF s.reason # StopReason
            THEN Suspending(StopReason, s.play_info, s.transition_countdown)
            ELSE Stopped
      [] s.kind = "Paused" -> Stopped

stop_immediately(s, timeline_cursor_pos) ==
    CASE s.kind = "Stopped" -> s
      [] s.kind = "ScheduledOrPlaying" ->
            IF s.stop_instruction.some
            THEN \* Scheduled for stop. Transition to stop now!
                 Suspending(StopReason, s.play_info, start_end_fade_length)
            ELSE IF has_started_already(s.play_info)
                 THEN Suspending(StopReason, s.play_info, start_end_fade_length)
                 ELSE \* Not yet playing. Backpedal.
                      Stopped
      [] s.kind = "Suspending" ->
            IF s.reason # StopReason
            THEN Suspending(StopReason, s.play_info, s.transition_countdown)
            ELSE s
      [] s.kind = "Paused" -> Stopped

\* Mutant of seek_to: the native length instead of the tempo-adjusted one.
seek_to_native_length(s, mtf, timeline_tempo, desired_pos) ==
    LET desired_pos_in_secs == (native_clip_length * desired_pos) \div 2
    IN CASE s.kind \in {"Stopped", "Suspending"} -> s
         [] s.kind = "ScheduledOrPlaying" ->
               ScheduledOrPlaying(PlayInfo(desired_pos_in_secs), s.stop_instruction)
         [] s.kind = "Paused" -> Paused(desired_pos_in_secs)

\* Mutant of seek_to: the pending stop instruction is lost.
seek_to_dropping_stop(s, mtf, timeline_tempo, desired_pos) ==
    LET length == clip_length(mtf, timeline_tempo)
        desired_pos_in_secs == (length * desired_pos) \div 2
    IN CASE s.kind \in {"Stopped", "Suspending"} -> s
         [] s.kind = "ScheduledOrPlaying" ->
               ScheduledOrPlaying(PlayInfo(desired_pos_in_secs), None)
         [] s.kind = "Paused" -> Paused(desired_pos_in_secs)

\* desired_pos is a UnitValue in halves
seek_to(s, mtf, timeline_tempo, desired_pos) ==
    LET length == clip_length(mtf, timeline_tempo)
        desired_pos_in_secs == (length * desired_pos) \div 2
    IN CASE s.kind \in {"Stopped", "Suspending"} -> s
         [] s.kind = "ScheduledOrPlaying" ->
               ScheduledOrPlaying(PlayInfo(desired_pos_in_secs), s.stop_instruction)
         [] s.kind = "Paused" -> Paused(desired_pos_in_secs)

set_tempo_factor(tempo_factor) ==
    IF tempo_factor < MIN_TEMPO_FACTOR THEN MIN_TEMPO_FACTOR ELSE tempo_factor

\* ClipState::play_info
play_info(s) ==
    IF s.kind \in {"Stopped", "Paused"} THEN None ELSE Some(s.play_info)

set_repeated(s, mtf, timeline_cursor_pos, timeline_tempo, repeated) ==
    IF repeated THEN Infinitely
    ELSE LET pi == play_info(s)
             times == IF pi.some
                      THEN current_hypothetical_cycle_index(
                               pi.value, clip_length(mtf, timeline_tempo)) + 1
                      ELSE 1
         IN Times(times)

pos_within_clip(s, timeline_cursor_pos, timeline_tempo) ==
    CASE s.kind = "Stopped" -> None
      [] s.kind \in {"ScheduledOrPlaying", "Suspending"} ->
            Some(s.play_info.next_block_pos)
      [] s.kind = "Paused" -> Some(s.next_block_pos)

---------------------------------------------------------------------------
(* Block rendering *)

\* Mutant of silence_midi: the channel loop stops one channel early.
silence_midi_one_channel_short ==
    [i \in 1..(2 * (Cardinality(MidiChannels) - 1)) |->
        [channel |-> (i - 1) \div 2,
         controller |-> IF i % 2 = 1 THEN ALL_NOTES_OFF ELSE ALL_SOUND_OFF,
         value |-> 0]]

\* The events silence_midi adds to the block's event list, in order: for each
\* channel a control change ALL_NOTES_OFF and a control change ALL_SOUND_OFF,
\* both with value U7::MIN.
silence_midi ==
    [i \in 1..(2 * Cardinality(MidiChannels)) |->
        [channel |-> (i - 1) \div 2,
         controller |-> IF i % 2 = 1 THEN ALL_NOTES_OFF ELSE ALL_SOUND_OFF,
         value |-> 0]]

\* BlockInfo::new, field block_end_pos; duration is block.length / sample_rate
\* Mutant of block_end_pos: the position is not wrapped at the clip length.
block_end_pos_without_wrap(pi, len, duration, final_tempo_factor) ==
    pi.next_block_pos + (duration * final_tempo_factor) \div 4

block_end_pos(pi, len, duration, final_tempo_factor) ==
    LET p == pi.next_block_pos + (duration * final_tempo_factor) \div 4
    IN IF p < 0 THEN p ELSE p % len

\* BlockInfo::is_last_block
is_last_block(stop_countdown, duration) ==
    IF stop_countdown.some THEN stop_countdown.value <= duration ELSE FALSE

\* Whether fill_samples asks the inner source for material: not for a block that
\* lies completely before the start position.
fill_samples(pi, len, duration, final_tempo_factor) ==
    ~(block_end_pos(pi, len, duration, final_tempo_factor) < 0)

\* Mutant of get_suspension_follow_up_state: a retrigger continues at the old
\* position instead of restarting at 0.
get_suspension_follow_up_state_retrigger_in_place(reason, pi) ==
    CASE reason.tag = "Retrigger" -> ScheduledOrPlaying(pi, None)
      [] reason.tag = "Pause" ->
            Paused(IF pi.next_block_pos < 0 THEN 0 ELSE pi.next_block_pos)
      [] reason.tag = "Stop" -> Stopped
      [] reason.tag = "PlayWhileSuspending" ->
            ScheduledOrPlaying(PlayInfo(reason.next_block_pos), None)

\* Mutant of get_suspension_follow_up_state: the resume position of a paused
\* clip is lost.
get_suspension_follow_up_state_pausing_at_zero(reason, pi) ==
    CASE reason.tag = "Retrigger" -> ScheduledOrPlaying(PlayInfo(0), None)
      [] reason.tag = "Pause" -> Paused(0)
      [] reason.tag = "Stop" -> Stopped
      [] reason.tag = "PlayWhileSuspending" ->
            ScheduledOrPlaying(PlayInfo(reason.next_block_pos), None)

get_suspension_follow_up_state(reason, pi) ==
    CASE reason.tag = "Retrigger" -> ScheduledOrPlaying(PlayInfo(0), None)
      [] reason.tag = "Pause" ->
            \* try_into().unwrap_or(DurationInSeconds::ZERO)
            Paused(IF pi.next_block_pos < 0 THEN 0 ELSE pi.next_block_pos)
      [] reason.tag = "Stop" -> Stopped
      [] reason.tag = "PlayWhileSuspending" ->
            ScheduledOrPlaying(PlayInfo(reason.next_block_pos), None)

\* A rendered block: the BlockInfo made for it (block_start_pos, clip length and
\* stop_countdown; None where no BlockInfo is made), the events silence_midi
\* added, and whether the inner source was asked for material.
Block(start_pos, len, stop_countdown, midi_events, queried) ==
    [block_start_pos |-> start_pos, clip_length |-> len,
     stop_countdown |-> stop_countdown, midi_events |-> midi_events,
     queried |-> queried]

NoBlock == Block(None, None, None, << >>, FALSE)

\* Mutant of get_samples_internal: a clip that reaches its end is faded out
\* instead of stopped.
get_samples_internal_fading_at_end(s, rep, mtf, midi, duration, timeline_tempo) ==
    LET final_tempo_factor == calc_final_tempo_factor(mtf, timeline_tempo)
        len == clip_length(mtf, timeline_tempo)
    IN CASE s.kind \in {"Stopped", "Paused"} -> [state |-> s, out |-> NoBlock]
         [] s.kind = "Suspending" ->
               IF midi
               THEN [state |-> get_suspension_follow_up_state(s.reason, s.play_info),
                     out |-> Block(None, None, None, silence_midi, FALSE)]
               ELSE LET next_transition_countdown ==
                            s.transition_countdown - duration
                    IN [state |->
                            IF next_transition_countdown > 0
                            THEN Suspending(s.reason, s.play_info,
                                            next_transition_countdown)
                            ELSE get_suspension_follow_up_state(s.reason,
                                                                s.play_info),
                        out |-> Block(Some(s.play_info.next_block_pos), Some(len),
                                      Some(s.transition_countdown), << >>,
                                      fill_samples(s.play_info, len, duration,
                                                   final_tempo_factor))]
         [] s.kind = "ScheduledOrPlaying" ->
               LET stop_countdown ==
                       effective_stop_countdown(s.play_info, len, rep,
                                                s.stop_instruction)
                   next_play_info ==
                       PlayInfo(block_end_pos(s.play_info, len, duration,
                                              final_tempo_factor))
                   next_stop_instruction ==
                       IF s.stop_instruction.some
                       THEN Some(count_down_by(s.stop_instruction.value, duration))
                       ELSE None
               IN [state |->
                       IF stop_countdown.some
                       THEN IF stop_countdown.value - duration > 0
                            THEN ScheduledOrPlaying(next_play_info,
                                                    next_stop_instruction)
                            ELSE Suspending(StopReason, next_play_info,
                                            start_end_fade_length)
                       ELSE ScheduledOrPlaying(next_play_info, None),
                   out |-> Block(Some(s.play_info.next_block_pos), Some(len),
                                 stop_countdown, << >>,
                                 fill_samples(s.play_info, len, duration,
                                              final_tempo_factor))]

\* Mutant of get_samples_internal: a paused clip keeps producing output.
get_samples_internal_silencing_paused(s, rep, mtf, midi, duration, timeline_tempo) ==
    LET final_tempo_factor == calc_final_tempo_factor(mtf, timeline_tempo)
        len == clip_length(mtf, timeline_tempo)
    IN CASE s.kind = "Stopped" -> [state |-> s, out |-> NoBlock]
         [] s.kind = "Paused" ->
               [state |-> s,
                out |-> Block(None, None, None,
                              IF midi THEN silence_midi ELSE << >>, ~midi)]
         [] s.kind = "Suspending" ->
               IF midi
               THEN [state |-> get_suspension_follow_up_state(s.reason, s.play_info),
                     out |-> Block(None, None, None, silence_midi, FALSE)]
               ELSE LET next_transition_countdown ==
                            s.transition_countdown - duration
                    IN [state |->
                            IF next_transition_countdown > 0
                            THEN Suspending(s.reason, s.play_info,
                                            next_transition_countdown)
                            ELSE get_suspension_follow_up_state(s.reason,
                                                                s.play_info),
                        out |-> Block(Some(s.play_info.next_block_pos), Some(len),
                                      Some(s.transition_countdown), << >>,
                                      fill_samples(s.play_info, len, duration,
                                                   final_tempo_factor))]
         [] s.kind = "ScheduledOrPlaying" ->
               LET stop_countdown ==
                       effective_stop_countdown(s.play_info, len, rep,
                                                s.stop_instruction)
                   next_play_info ==
                       PlayInfo(block_end_pos(s.play_info, len, duration,
                                              final_tempo_factor))
                   next_stop_instruction ==
                       IF s.stop_instruction.some
                       THEN Some(count_down_by(s.stop_instruction.value, duration))
                       ELSE None
               IN [state |->
                       IF stop_countdown.some
                       THEN IF stop_countdown.value - duration > 0
                            THEN ScheduledOrPlaying(next_play_info,
                                                    next_stop_instruction)
                            ELSE Stopped
                       ELSE ScheduledOrPlaying(next_play_info, None),
                   out |-> Block(Some(s.play_info.next_block_pos), Some(len),
                                 stop_countdown, << >>,
                                 fill_samples(s.play_info, len, duration,
                                              final_tempo_factor))]

\* The next clip state and the block's output, for a block of the given
\* duration rendered while the timeline runs at timeline_tempo.
get_samples_internal(s, rep, mtf, midi, duration, timeline_tempo) ==
    LET final_tempo_factor == calc_final_tempo_factor(mtf, timeline_tempo)
        len == clip_length(mtf, timeline_tempo)
    IN CASE s.kind \in {"Stopped", "Paused"} -> [state |-> s, out |-> NoBlock]
         [] s.kind = "Suspending" ->
               IF midi
               THEN [state |-> get_suspension_follow_up_state(s.reason, s.play_info),
                     out |-> Block(None, None, None, silence_midi, FALSE)]
               ELSE LET next_transition_countdown ==
                            s.transition_countdown - duration
                    IN [state |->
                            IF next_transition_countdown > 0
                            THEN Suspending(s.reason, s.play_info,
                                            next_transition_countdown)
                            ELSE get_suspension_follow_up_state(s.reason,
                                                                s.play_info),
                        out |-> Block(Some(s.play_info.next_block_pos), Some(len),
                                      Some(s.transition_countdown), << >>,
                                      fill_samples(s.play_info, len, duration,
                                                   final_tempo_factor))]
         [] s.kind = "ScheduledOrPlaying" ->
               LET stop_countdown ==
                       effective_stop_countdown(s.play_info, len, rep,
                                                s.stop_instruction)
                   next_play_info ==
                       PlayInfo(block_end_pos(s.play_info, len, duration,
                                              final_tempo_factor))
                   next_stop_instruction ==
                       IF s.stop_instruction.some
                       THEN Some(count_down_by(s.stop_instruction.value, duration))
                       ELSE None
               IN [state |->
                       IF stop_countdown.some
                       THEN IF stop_countdown.value - duration > 0
                            THEN ScheduledOrPlaying(next_play_info,
                                                    next_stop_instruction)
                            ELSE Stopped
                       ELSE ScheduledOrPlaying(next_play_info, None),
                   out |-> Block(Some(s.play_info.next_block_pos), Some(len),
                                 stop_countdown, << >>,
                                 fill_samples(s.play_info, len, duration,
                                              final_tempo_factor))]

---------------------------------------------------------------------------
(* Recorder (src/clip-engine/src/supplier/recorder.rs).  A source is its    *)
(* identity and the number of MIDI event lists added to it; audio frames    *)
(* are counted in units of 48000 frames.                                    *)

MaxSources == 3
MaxMidiWrites == 2
MaxRecordBlock == 2

\* OwnedAudioBuffer::new(2, 48000 * 2): the frame count, in units of 48000
temporary_audio_buffer_frames == 2

ClipRecordInputs == {"Midi", "Audio"}

Projects == {None, Some("project")}

RecordBlockLengths == 1..MaxRecordBlock

Ok(v) == [ok |-> TRUE, value |-> v]

Err(e) == [ok |-> FALSE, error |-> e]

Source(id, events) == [id |-> id, events |-> events]

create_empty_midi_source(id) == Source(id, 0)

create_audio_sink(id, project) == [id |-> id, project |-> project]

OwnedAudioBuffer_new(channel_count, frame_count) ==
    [channel_count |-> channel_count, frame_count |-> frame_count,
     written |-> 0]

ReadyState(source) == [kind |-> "Ready", source |-> source]

RecordingState(sub_state, old_source, project) ==
    [kind |-> "Recording", sub_state |-> sub_state, old_source |-> old_source,
     project |-> project]

RecordingAudioState(sink, temporary_audio_buffer, next_record_start_frame) ==
    [kind |-> "Audio", sink |-> sink,
     temporary_audio_buffer |-> temporary_audio_buffer,
     next_record_start_frame |-> next_record_start_frame]

RecordingMidiState(new_source) == [kind |-> "Midi", new_source |-> new_source]

\* RecordingSubState::new; id is the identity of the source or sink it creates
RecordingSubState_new(input, project, id) ==
    IF input = "Midi"
    THEN RecordingMidiState(create_empty_midi_source(id))
    ELSE RecordingAudioState(
             create_audio_sink(id, project),
             OwnedAudioBuffer_new(2, temporary_audio_buffer_frames),
             0)

\* Recorder::ready
ready(source) == ReadyState(source)

\* Recorder::recording
recording(input, project, id) ==
    RecordingState(RecordingSubState_new(input, project, id), None, project)

\* Mutant of prepare_recording: a recording prepared during a recording
\* forgets the old source.
prepare_recording_forgetting(s, input, project, id) ==
    LET old_source == IF s.kind = "Ready" THEN Some(s.source) ELSE None
    IN RecordingState(RecordingSubState_new(input, project, id), old_source,
                      project)

\* Recorder::prepare_recording
prepare_recording(s, input, project, id) ==
    LET old_source == IF s.kind = "Ready" THEN Some(s.source) ELSE s.old_source
    IN RecordingState(RecordingSubState_new(input, project, id), old_source,
                      project)

SourceData_from_source(source, project) ==
    [source |-> source, project |-> project]

commit_recording_dropping_old_source(s) ==
    IF s.kind = "Ready"
    THEN [res |-> Err("not recording"), state |-> s]
    ELSE IF s.sub_state.kind = "Audio"
         THEN [res |-> Err("TODO implement"),
               state |-> RecordingState(s.sub_state, None, s.project)]
         ELSE [res |-> Ok(SourceData_from_source(s.sub_state.new_source,
                                                 s.project)),
               state |-> ReadyState(s.sub_state.new_source)]

commit_recording_keeping_old_source(s) ==
    IF s.kind = "Ready"
    THEN [res |-> Err("not recording"), state |-> s]
    ELSE IF s.sub_state.kind = "Audio"
         THEN [res |-> Err("TODO implement"), state |-> s]
         ELSE [res |-> Ok(SourceData_from_source(s.sub_state.new_source,
                                                 s.project)),
               state |-> IF s.old_source.some
                         THEN ReadyState(s.old_source.value)
                         ELSE ReadyState(s.sub_state.new_source)]

\* Recorder::commit_recording: the result and the state it leaves
commit_recording(s) ==
    IF s.kind = "Ready"
    THEN [res |-> Err("not recording"), state |-> s]
    ELSE IF s.sub_state.kind = "Audio"
         THEN [res |-> Err("TODO implement"),
               state |-> RecordingState(s.sub_state, s.old_source, s.project)]
         ELSE [res |-> Ok(SourceData_from_source(s.sub_state.new_source,
                                                 s.project)),
               state |-> ReadyState(s.sub_state.new_source)]

rollback_recording_to_new_source(s) ==
    IF s.kind = "Ready"
    THEN [res |-> Ok("unit"), state |-> s]
    ELSE IF s.old_source.some
         THEN [res |-> Ok("unit"), state |-> ReadyState(s.old_source.value)]
         ELSE IF s.sub_state.kind = "Midi"
              THEN [res |-> Ok("unit"),
                    state |-> ReadyState(s.sub_state.new_source)]
              ELSE [res |-> Err("nothing to roll back to"), state |-> s]

\* Recorder::rollback_recording: the result and the state it leaves
rollback_recording(s) ==
    IF s.kind = "Ready"
    THEN [res |-> Ok("unit"), state |-> s]
    ELSE IF s.old_source.some
         THEN [res |-> Ok("unit"), state |-> ReadyState(s.old_source.value)]
         ELSE [res |-> Err("nothing to roll back to"), state |-> s]

\* Recorder::write_audio: only an audio recording takes the frames, and only
\* as many as the temporary buffer still has room for
write_audio(s, block_length) ==
    IF s.kind = "Recording" /\ s.sub_state.kind = "Audio"
    THEN LET a == s.sub_state
             start_frame == a.next_record_start_frame
             out_buf == a.temporary_audio_buffer
             ideal_end_frame == start_frame + block_length
             end_frame == Min(ideal_end_frame, out_buf.frame_count)
             num_frames_written == end_frame - start_frame
         IN RecordingState(
                RecordingAudioState(
                    a.sink,
                    [out_buf EXCEPT !.written = @ + num_frames_written],
                    start_frame + num_frames_written),
                s.old_source, s.project)
    ELSE s

\* Recorder::write_midi: the events go to the source being recorded or, when
\* not recording, to the ready source
write_midi(s) ==
    IF s.kind = "Ready"
    THEN ReadyState(Source(s.source.id, s.source.events + 1))
    ELSE IF s.sub_state.kind = "Midi"
         THEN RecordingState(
                  RecordingMidiState(Source(s.sub_state.new_source.id,
                                            s.sub_state.new_source.events + 1)),
                  s.old_source, s.project)
         ELSE s

\* The Recorder of a clip that is not being recorded
RecorderIdle ==
    /\ recorder = ready(Source(0, 0))
    /\ recorder_result = None
    /\ recorder_op = "new"
    /\ sources_created = 1
    /\ discarded = None

---------------------------------------------------------------------------
(* Fade calculator.  A gain factor is kept as the fraction the source       *)
(* divides out: 0.0 is 0/1, 1.0 is 1/1.                                     *)

MaxFadeEndPos == 6
MaxFadeClipLength == 4
MaxFadeOffset == 1
MaxFadeLength == 2

Fraction(num, den) == [num |-> num, den |-> den]

IsZero(f) == f.num = 0

IsOne(f) == f.num = f.den

FadeCalculator(end_pos, len, offset, edge_fade, loop_fade) ==
    [end_pos |-> end_pos, clip_length |-> len, clip_cursor_offset |-> offset,
     start_end_fade_length |-> edge_fade,
     intermediate_fade_length |-> loop_fade]

FadeCalculators ==
    {FadeCalculator(e, l, o, sf, lf) :
        e \in 0..MaxFadeEndPos, l \in 1..MaxFadeClipLength,
        o \in 0..MaxFadeOffset, sf \in 0..MaxFadeLength,
        lf \in 0..MaxFadeLength}

FadePositions == -1..(MaxFadeEndPos + 1)

calculate_fade_factor_without_end(calc, current_pos) ==
    IF current_pos < 0
    THEN Fraction(0, 1)
    ELSE IF current_pos < calc.start_end_fade_length
    THEN Fraction(current_pos, calc.start_end_fade_length)
    ELSE LET within == (current_pos + calc.clip_cursor_offset)
                           % calc.clip_length
             distance_to_clip_end == calc.clip_length - within
         IN IF distance_to_clip_end < calc.intermediate_fade_length
            THEN Fraction(distance_to_clip_end, calc.intermediate_fade_length)
            ELSE IF within < calc.intermediate_fade_length
            THEN Fraction(within, calc.intermediate_fade_length)
            ELSE Fraction(1, 1)

\* FadeCalculator::calculate_fade_factor
calculate_fade_factor(calc, current_pos) ==
    IF current_pos < 0
    THEN Fraction(0, 1)
    ELSE IF current_pos >= calc.end_pos
    THEN Fraction(0, 1)
    ELSE IF current_pos < calc.start_end_fade_length
    THEN Fraction(current_pos, calc.start_end_fade_length)
    ELSE IF calc.end_pos - current_pos < calc.start_end_fade_length
    THEN Fraction(calc.end_pos - current_pos, calc.start_end_fade_length)
    ELSE LET current_pos_within_clip ==
                 (current_pos + calc.clip_cursor_offset) % calc.clip_length
             distance_to_clip_end ==
                 calc.clip_length - current_pos_within_clip
         IN IF distance_to_clip_end < calc.intermediate_fade_length
            THEN Fraction(distance_to_clip_end, calc.intermediate_fade_length)
            ELSE IF current_pos_within_clip < calc.intermediate_fade_length
            THEN Fraction(current_pos_within_clip,
                          calc.intermediate_fade_length)
            ELSE Fraction(1, 1)

\* No fade factor asked for yet
FadeIdle ==
    /\ fade_calculator = FadeCalculator(0, 1, 0, 0, 0)
    /\ fade_pos = -1
    /\ fade_factor = Fraction(0, 1)

---------------------------------------------------------------------------
(* The state machine *)

\* What the history keeps of the state a call finds.
Found(s) ==
    [kind |-> s.kind,
     reason |-> IF s.kind = "Suspending" THEN s.reason.tag ELSE "None"]

\* ClipPcmSource::new
Init ==
    /\ state = Stopped
    /\ repetition = Times(1)
    /\ manual_tempo_factor = 4
    /\ is_midi \in BOOLEAN
    /\ block = NoBlock
    /\ last_op = "new"
    /\ cycle = 0
    /\ steady = FALSE
    /\ found = Found(Stopped)
    /\ faded = 0
    /\ RecorderIdle
    /\ FadeIdle

\* The effect of a control operation that leaves the clip with state s2,
\* repetition rep2 and manual tempo factor mtf2.  A call that changes nothing
\* leaves the history alone; any other call ends a steady run, and starts one when
\* it puts the clip at position 0.
Control(s2, rep2, mtf2) ==
    LET noop == s2 = state /\ rep2 = repetition /\ mtf2 = manual_tempo_factor
        same_pos == /\ s2.kind = "ScheduledOrPlaying"
                    /\ state.kind = "ScheduledOrPlaying"
                    /\ s2.play_info = state.play_info
    IN /\ state' = s2
       /\ repetition' = rep2
       /\ manual_tempo_factor' = mtf2
       /\ block' = NoBlock
       /\ steady' = IF noop THEN steady
                    ELSE /\ s2.kind = "ScheduledOrPlaying"
                         /\ s2.play_info.next_block_pos = 0
                         /\ ~s2.stop_instruction.some
                         /\ ~same_pos
       /\ cycle' = IF noop THEN cycle ELSE 0
       /\ found' = Found(state)
       /\ faded' = IF s2.kind = "Suspending" /\ state.kind = "Suspending"
                   THEN faded ELSE 0
       /\ UNCHANGED <<is_midi, recorder_vars, fade_vars>>

ScheduleStart(timeline_cursor_pos, pos, repeated) ==
    /\ last_op' = "schedule_start"
    /\ LET r == start_internal(state, repetition, timeline_cursor_pos, pos,
                               repeated)
       IN Control(r.state, r.repetition, manual_tempo_factor)

\* Mutant of StartImmediately: the start position lies one fade length ahead
\* of the cursor.
StartImmediately_with_count_in(timeline_cursor_pos, repeated) ==
    /\ last_op' = "start_immediately"
    /\ LET r == start_internal(state, repetition, timeline_cursor_pos,
                               timeline_cursor_pos + start_end_fade_length,
                               repeated)
       IN Control(r.state, r.repetition, manual_tempo_factor)

StartImmediately(timeline_cursor_pos, repeated) ==
    /\ last_op' = "start_immediately"
    /\ LET r == start_internal(state, repetition, timeline_cursor_pos,
                               timeline_cursor_pos, repeated)
       IN Control(r.state, r.repetition, manual_tempo_factor)

Pause(timeline_cursor_pos) ==
    /\ last_op' = "pause"
    /\ Control(pause(state, timeline_cursor_pos), repetition, manual_tempo_factor)

ScheduleStop(timeline_cursor_pos, timeline_tempo, pos) ==
    /\ last_op' = "schedule_stop"
    /\ Control(schedule_stop(state, repetition, manual_tempo_factor,
                             timeline_cursor_pos, timeline_tempo, pos),
               repetition, manual_tempo_factor)

StopImmediately(timeline_cursor_pos) ==
    /\ last_op' = "stop_immediately"
    /\ Control(stop_immediately(state, timeline_cursor_pos), repetition,
               manual_tempo_factor)

SeekTo(timeline_tempo, desired_pos) ==
    /\ last_op' = "seek_to"
    /\ Control(seek_to(state, manual_tempo_factor, timeline_tempo, desired_pos),
               repetition, manual_tempo_factor)

SetTempoFactor(tempo_factor) ==
    /\ last_op' = "set_tempo_factor"
    /\ Control(state, repetition, set_tempo_factor(tempo_factor))

SetRepeated(timeline_cursor_pos, timeline_tempo, repeated) ==
    /\ last_op' = "set_repeated"
    /\ Control(state,
               set_repeated(state, manual_tempo_factor, timeline_cursor_pos,
                            timeline_tempo, repeated),
               manual_tempo_factor)

\* Mutant of GetSamples: the block is rendered whether the timeline runs or
\* not.
GetSamples_ignoring_timeline(is_running, duration, timeline_tempo) ==
    LET r == get_samples_internal(state, repetition, manual_tempo_factor, is_midi,
                                  duration, timeline_tempo)
    IN /\ last_op' = "get_samples"
       /\ found' = Found(state)
       /\ UNCHANGED <<repetition, manual_tempo_factor, is_midi, recorder_vars,
                       fade_vars>>
       /\ state' = r.state
       /\ block' = r.out
       /\ steady' = FALSE
       /\ faded' = 0
       /\ cycle' = 0

\* CustomPcmSource::get_samples: nothing happens while the timeline is paused.
\* (debug_counter only decides whether debug output is printed; it is left out.)
GetSamples(is_running, duration, timeline_tempo) ==
    LET r == get_samples_internal(state, repetition, manual_tempo_factor, is_midi,
                                  duration, timeline_tempo)
        final_tempo_factor == calc_final_tempo_factor(manual_tempo_factor,
                                                      timeline_tempo)
        len == clip_length(manual_tempo_factor, timeline_tempo)
        stays_steady == /\ steady
                        /\ final_tempo_factor = 4
                        /\ r.state.kind = "ScheduledOrPlaying"
        starts_steady == /\ state.kind = "Suspending"
                         /\ r.state.kind = "ScheduledOrPlaying"
                         /\ r.state.play_info.next_block_pos = 0
    IN /\ last_op' = "get_samples"
       /\ found' = Found(state)
       /\ UNCHANGED <<repetition, manual_tempo_factor, is_midi, recorder_vars,
                       fade_vars>>
       /\ IF is_running
          THEN /\ state' = r.state
               /\ block' = r.out
               /\ steady' = (stays_steady \/ starts_steady)
               /\ faded' = IF /\ state.kind = "Suspending"
                              /\ r.state.kind = "Suspending"
                           THEN faded + duration ELSE 0
               /\ cycle' =
                    IF stays_steady
                    THEN Min(cycle + (state.play_info.next_block_pos
                                      + (duration * final_tempo_factor) \div 4)
                                     \div len,
                             MaxCycle)
                    ELSE 0
          ELSE /\ block' = NoBlock
               /\ UNCHANGED <<state, steady, cycle, faded>>

StopPositions == {At(p) : p \in Positions} \cup {AtEndOfClip}

StopInstructions ==
    {In(c) : c \in Positions} \cup {AtEndOfCycle(n) : n \in 0..MaxCycle}

Next ==
    \/ \E c \in Positions, p \in Positions, r \in BOOLEAN : ScheduleStart(c, p, r)
    \/ \E c \in Positions, r \in BOOLEAN : StartImmediately(c, r)
    \/ \E c \in Positions : Pause(c)
    \/ \E c \in Positions, t \in Tempos, p \in StopPositions : ScheduleStop(c, t, p)
    \/ \E c \in Positions : StopImmediately(c)
    \/ \E t \in Tempos, u \in UnitValues : SeekTo(t, u)
    \/ \E f \in TempoFactorInputs : SetTempoFactor(f)
    \/ \E c \in Positions, t \in Tempos, r \in BOOLEAN : SetRepeated(c, t, r)
    \/ \E run \in BOOLEAN, d \in BlockDurations, t \in Tempos : GetSamples(run, d, t)

Spec == Init /\ [][Next]_vars

---------------------------------------------------------------------------
(* The Recorder on its own: the clip and the fade calculator stay as        *)
(* constructed.                                                             *)

ClipIdle ==
    /\ state = Stopped
    /\ repetition = Times(1)
    /\ manual_tempo_factor = 4
    /\ is_midi = FALSE
    /\ block = NoBlock
    /\ last_op = "new"
    /\ cycle = 0
    /\ steady = FALSE
    /\ found = Found(Stopped)
    /\ faded = 0

\* Recorder::ready or Recorder::recording
RecorderInit ==
    /\ ClipIdle
    /\ FadeIdle
    /\ \/ recorder = ready(Source(0, 0))
       \/ \E input \in ClipRecordInputs, project \in Projects :
              recorder = recording(input, project, 0)
    /\ recorder_result = None
    /\ recorder_op = "new"
    /\ sources_created = 1
    /\ discarded = None

PrepareRecording(input, project) ==
    /\ sources_created < MaxSources
    /\ recorder_op' = "prepare_recording"
    /\ recorder' = prepare_recording(recorder, input, project, sources_created)
    /\ recorder_result' = None
    /\ sources_created' = sources_created + 1
    /\ discarded' = None
    /\ UNCHANGED <<clip_vars, fade_vars>>

CommitRecording ==
    LET r == commit_recording(recorder)
    IN /\ recorder_op' = "commit_recording"
       /\ recorder' = r.state
       /\ recorder_result' = r.res
       /\ discarded' = IF r.res.ok THEN recorder.old_source ELSE discarded
       /\ UNCHANGED <<sources_created, clip_vars, fade_vars>>

RollbackRecording ==
    LET r == rollback_recording(recorder)
    IN /\ recorder_op' = "rollback_recording"
       /\ recorder' = r.state
       /\ recorder_result' = r.res
       /\ UNCHANGED <<sources_created, discarded, clip_vars, fade_vars>>

WriteAudio(block_length) ==
    /\ recorder_op' = "write_audio"
    /\ recorder' = write_audio(recorder, block_length)
    /\ recorder_result' = None
    /\ UNCHANGED <<sources_created, discarded, clip_vars, fade_vars>>

WriteMidi ==
    /\ \/ recorder.kind = "Ready" /\ recorder.source.events < MaxMidiWrites
       \/ /\ recorder.kind = "Recording"
          /\ recorder.sub_state.kind = "Midi"
             => recorder.sub_state.new_source.events < MaxMidiWrites
    /\ recorder_op' = "write_midi"
    /\ recorder' = write_midi(recorder)
    /\ recorder_result' = None
    /\ UNCHANGED <<sources_created, discarded, clip_vars, fade_vars>>

RecorderNext ==
    \/ \E input \in ClipRecordInputs, project \in Projects :
           PrepareRecording(input, project)
    \/ CommitRecording
    \/ RollbackRecording
    \/ \E n \in RecordBlockLengths : WriteAudio(n)
    \/ WriteMidi

RecorderSpec == RecorderInit /\ [][RecorderNext]_vars

---------------------------------------------------------------------------
(* The fade calculator on its own: any calculator, asked at any position.   *)

FadeInit ==
    /\ ClipIdle
    /\ RecorderIdle
    /\ fade_calculator \in FadeCalculators
    /\ fade_pos = -1
    /\ fade_factor = calculate_fade_factor(fade_calculator, -1)

CalculateFadeFactor(current_pos) ==
    /\ fade_pos' = current_pos
    /\ fade_factor' = calculate_fade_factor(fade_calculator, current_pos)
    /\ UNCHANGED <<fade_calculator, clip_vars, recorder_vars>>

FadeNext == \E p \in FadePositions : CalculateFadeFactor(p)

FadeSpec == FadeInit /\ [][FadeNext]_vars

---------------------------------------------------------------------------
(* Playing out after set_repeated(false).  The clip is started repeating    *)
(* only, so a playing clip has a finite repetition exactly when             *)
(* set_repeated(false) was called while it played; from then until it stops *)
(* no control operation is called and the timeline runs.  The host calls    *)
(* get_samples for every block, so rendering with a running timeline is     *)
(* weakly fair.                                                             *)

AwaitingNaturalStop ==
    /\ state.kind = "ScheduledOrPlaying"
    /\ repetition.tag = "Times"

Render == \E d \in BlockDurations, t \in Tempos : GetSamples(TRUE, d, t)

LiveNext ==
    \/ /\ ~AwaitingNaturalStop
       /\ \E c \in Positions, p \in Positions : ScheduleStart(c, p, TRUE)
    \/ /\ ~AwaitingNaturalStop
       /\ \E c \in Positions : StartImmediately(c, TRUE)
    \/ /\ ~AwaitingNaturalStop
       /\ \E c \in Positions : Pause(c)
    \/ /\ ~AwaitingNaturalStop
       /\ \E c \in Positions, t \in Tempos, p \in StopPositions :
              ScheduleStop(c, t, p)
    \/ /\ ~AwaitingNaturalStop
       /\ \E c \in Positions : StopImmediately(c)
    \/ /\ ~AwaitingNaturalStop
       /\ \E t \in Tempos, u \in UnitValues : SeekTo(t, u)
    \/ /\ ~AwaitingNaturalStop
       /\ \E f \in TempoFactorInputs : SetTempoFactor(f)
    \/ /\ state.kind = "ScheduledOrPlaying"
       /\ repetition = Infinitely
       /\ \E c \in Positions, t \in Tempos : SetRepeated(c, t, FALSE)
    \/ /\ ~AwaitingNaturalStop
       /\ \E d \in BlockDurations, t \in Tempos : GetSamples(FALSE, d, t)
    \/ Render

LiveSpec == Init /\ [][LiveNext]_vars /\ WF_vars(Render)

---------------------------------------------------------------------------
(* Claims *)

\* C1: for every cursor_pos, start_pos and repeated flag, schedule_start on a
\* Stopped clip yields ScheduledOrPlaying with
\* play_info.next_block_pos = cursor_pos - start_pos and no stop instruction.
C1_ScheduleStartFromStopped ==
    [][(state = Stopped /\ last_op' = "schedule_start") =>
          \A c \in Positions, p \in Positions, r \in BOOLEAN :
              ScheduleStart(c, p, r) =>
                  /\ state'.kind = "ScheduledOrPlaying"
                  /\ state'.play_info.next_block_pos = c - p
                  /\ state'.stop_instruction = None]_vars

\* A clip in count-in right after schedule_start.
C1_Witness ==
    /\ last_op = "schedule_start"
    /\ state.kind = "ScheduledOrPlaying"
    /\ state.play_info.next_block_pos < 0
    /\ state.stop_instruction = None

\* C2: stop_immediately is idempotent.  From every reachable state the first call
\* ends in Suspending{Stop} or Stopped, and a second call right after it changes
\* nothing.
C2_StopImmediatelyIdempotent ==
    \A c1 \in Positions, c2 \in Positions :
        LET s1 == stop_immediately(state, c1)
        IN /\ \/ s1 = Stopped
              \/ s1.kind = "Suspending" /\ s1.reason = StopReason
           /\ stop_immediately(s1, c2) = s1

\* stop_immediately has put a playing clip into Suspending{Stop}.
C2_Witness ==
    /\ last_op = "stop_immediately"
    /\ state.kind = "Suspending"
    /\ state.reason = StopReason

\* C3: when an infinitely repeating clip that was started at position 0 has been
\* rendered through k complete passes (k = cycle, counted while the clip plays
\* undisturbed at tempo factor 1.0) and set_repeated(false) is called, the
\* resulting repetition is Times(k + 1).
C3_SetRepeatedKeepsCurrentCycle ==
    [][(/\ steady
        /\ cycle < MaxCycle
        /\ repetition = Infinitely
        /\ last_op' = "set_repeated") =>
          \A c \in Positions, t \in Tempos :
              (/\ calc_final_tempo_factor(manual_tempo_factor, t) = 4
               /\ SetRepeated(c, t, FALSE)) =>
                  repetition' = Times(cycle + 1)]_vars

\* C4: a clip with repetition Times(2), started at position 0 and rendered
\* block after block at tempo factor 1.0 without any control operation, stays
\* ScheduledOrPlaying while less than twice its length has been rendered and is
\* Stopped by the block that completes twice its length.
C4_TimesTwoStopsAfterTwoCycles ==
    [][(steady /\ repetition = Times(2) /\ last_op' = "get_samples") =>
       \A d \in BlockDurations, t \in Tempos :
          (/\ calc_final_tempo_factor(manual_tempo_factor, t) = 4
           /\ GetSamples(TRUE, d, t)) =>
              LET len == clip_length(manual_tempo_factor, t)
                  rendered == cycle * len + state.play_info.next_block_pos + d
              IN IF rendered >= 2 * len
                 THEN state' = Stopped
                 ELSE state'.kind = "ScheduledOrPlaying"]_vars

\* The block's events silence every channel: for each of the 16 MIDI channels
\* an all-notes-off and an all-sound-off control change.
AllChannelsSilenced(events) ==
    /\ Len(events) = 32
    /\ \A ch \in 0..15, cc \in {123, 120} :
          \E i \in 1..Len(events) :
              /\ events[i].channel = ch
              /\ events[i].controller = cc
              /\ events[i].value = 0

\* C5: for a MIDI clip, stop_immediately while actually playing starts a
\* suspension for stop; the clip leaves a suspension only in a block that
\* silences all 16 channels; and the first block rendered with a running
\* timeline emits these 32 events and ends the suspension, in Stopped when the
\* suspension was for stop.
C5_MidiStopSilencesAllChannels ==
    [][is_midi =>
          /\ (/\ state.kind = "ScheduledOrPlaying"
              /\ state.play_info.next_block_pos >= 0
              /\ last_op' = "stop_immediately") =>
                /\ state'.kind = "Suspending"
                /\ state'.reason = StopReason
                /\ state'.play_info = state.play_info
          /\ (state.kind = "Suspending" /\ state'.kind # "Suspending") =>
                /\ last_op' = "get_samples"
                /\ AllChannelsSilenced(block'.midi_events)
          /\ (state.kind = "Suspending" /\ last_op' = "get_samples") =>
                \A d \in BlockDurations, t \in Tempos :
                    GetSamples(TRUE, d, t) =>
                        /\ AllChannelsSilenced(block'.midi_events)
                        /\ state'.kind # "Suspending"
                        /\ state.reason = StopReason => state' = Stopped]_vars

\* A MIDI clip has just been stopped by a block that carried the 32 events.
C5_Witness ==
    /\ is_midi
    /\ last_op = "get_samples"
    /\ state = Stopped
    /\ Len(block.midi_events) = 32

\* C6: pause leaves state and repetition unchanged when the clip is Paused or
\* is ScheduledOrPlaying with next_block_pos < 0.
C6_PauseNoOpBeforeStart ==
    [][(/\ last_op' = "pause"
        /\ \/ state.kind = "Paused"
           \/ /\ state.kind = "ScheduledOrPlaying"
              /\ state.play_info.next_block_pos < 0) =>
          /\ state' = state
          /\ repetition' = repetition]_vars

\* pause has been called on a clip in count-in.
C6_Witness ==
    /\ last_op = "pause"
    /\ state.kind = "ScheduledOrPlaying"
    /\ state.play_info.next_block_pos < 0

C8_ResolveNeverNegative ==
    /\ block.stop_countdown.some => block.stop_countdown.value >= 0
    /\ state.kind \in {"ScheduledOrPlaying", "Suspending"} =>
          \A t \in Tempos, si \in StopInstructions :
              LET len == clip_length(manual_tempo_factor, t)
                  r == resolve_stop_instruction(state.play_info, len, si)
              IN /\ r >= 0
                 /\ (/\ si.tag = "AtEndOfCycle"
                     /\ len * (si.cycle + 1) < state.play_info.next_block_pos)
                       => r = 0

\* A block has been rendered whose position lay beyond the end of the last
\* cycle, and its stop countdown was 0.
C8_Witness ==
    /\ last_op = "get_samples"
    /\ block.stop_countdown = Some(0)
    /\ block.block_start_pos.some
    /\ block.block_start_pos.value > block.clip_length.value

\* C9 as stated: schedule_stop on a clip that is ScheduledOrPlaying, has started
\* and has no stop instruction always leaves it ScheduledOrPlaying with the same
\* play_info and a stop instruction set, for every stop position and repetition.
C9_ScheduleStopAlwaysStores ==
    [][(/\ state.kind = "ScheduledOrPlaying"
        /\ state.play_info.next_block_pos >= 0
        /\ ~state.stop_instruction.some
        /\ last_op' = "schedule_stop") =>
       \A c \in Positions, t \in Tempos, p \in StopPositions :
          ScheduleStop(c, t, p) =>
              /\ state'.kind = "ScheduledOrPlaying"
              /\ state'.play_info = state.play_info
              /\ state'.stop_instruction.some]_vars

\* C9 amended: schedule_stop on a started ScheduledOrPlaying clip without stop
\* instruction stores In(p - cursor) for a position At(p) at or after the
\* cursor, and AtEndOfCycle(i) for AtEndOfClip when the current cycle index i
\* is within the repetition, keeping play_info; for a position behind the
\* cursor, or a cycle index at or beyond Times(n), the clip becomes Stopped.
C9_ScheduleStopStoresOrStops ==
    [][(/\ state.kind = "ScheduledOrPlaying"
        /\ state.play_info.next_block_pos >= 0
        /\ ~state.stop_instruction.some
        /\ last_op' = "schedule_stop") =>
       \A c \in Positions, t \in Tempos, p \in StopPositions :
          ScheduleStop(c, t, p) =>
              LET i == state.play_info.next_block_pos
                           \div clip_length(manual_tempo_factor, t)
                  resolvable ==
                      IF p.tag = "At" THEN p.pos >= c
                      ELSE repetition = Infinitely \/ i < repetition.n
              IN IF resolvable
                 THEN state' = ScheduledOrPlaying(
                                   state.play_info,
                                   Some(IF p.tag = "At" THEN In(p.pos - c)
                                        ELSE AtEndOfCycle(i)))
                 ELSE state' = Stopped]_vars

\* schedule_stop has stored an instruction on a playing clip.
C9_Witness ==
    /\ last_op = "schedule_stop"
    /\ state.kind = "ScheduledOrPlaying"
    /\ state.play_info.next_block_pos >= 0
    /\ state.stop_instruction = Some(In(8))

\* C10: schedule_stop changes nothing when the clip is ScheduledOrPlaying with a
\* stop instruction set; it moves a Paused clip to Stopped; and it moves a
\* ScheduledOrPlaying clip with next_block_pos < 0 to Stopped.
C10_ScheduleStopOtherCases ==
    [][last_op' = "schedule_stop" =>
          /\ (state.kind = "ScheduledOrPlaying" /\ state.stop_instruction.some)
                => (state' = state /\ repetition' = repetition)
          /\ state.kind = "Paused" => state' = Stopped
          /\ (/\ state.kind = "ScheduledOrPlaying"
              /\ state.play_info.next_block_pos < 0) => state' = Stopped]_vars

\* schedule_stop has been called on a clip whose stop instruction had already
\* been counted down by a block: the instruction is still the counted-down one.
C10_Witness ==
    /\ last_op = "schedule_stop"
    /\ state.kind = "ScheduledOrPlaying"
    /\ state.stop_instruction = Some(In(4))

\* C11: stop_immediately moves a ScheduledOrPlaying clip that is scheduled to
\* stop or has started to Suspending{Stop} with the same play_info and the
\* fade length as transition_countdown; it moves a clip in count-in without
\* stop instruction to Stopped; and it moves a Paused clip to Stopped.
C11_StopImmediatelyCases ==
    [][last_op' = "stop_immediately" =>
          /\ (/\ state.kind = "ScheduledOrPlaying"
              /\ \/ state.stop_instruction.some
                 \/ state.play_info.next_block_pos >= 0) =>
                /\ state'.kind = "Suspending"
                /\ state'.reason = StopReason
                /\ state'.play_info = state.play_info
                /\ state'.transition_countdown = start_end_fade_length
          /\ (/\ state.kind = "ScheduledOrPlaying"
              /\ ~state.stop_instruction.some
              /\ state.play_info.next_block_pos < 0) => state' = Stopped
          /\ state.kind = "Paused" => state' = Stopped]_vars

\* stop_immediately found a clip that had played into its first pass and
\* started the fade-out.
C11_Witness ==
    /\ last_op = "stop_immediately"
    /\ found.kind = "ScheduledOrPlaying"
    /\ state.kind = "Suspending"
    /\ state.reason = StopReason
    /\ state.play_info.next_block_pos > 0
    /\ state.transition_countdown = start_end_fade_length

\* C12: schedule_start or start_immediately on a clip that is
\* ScheduledOrPlaying with a stop instruction set leaves it ScheduledOrPlaying
\* with the same play_info and no stop instruction.
C12_StartCancelsScheduledStop ==
    [][(/\ last_op' \in {"schedule_start", "start_immediately"}
        /\ state.kind = "ScheduledOrPlaying"
        /\ state.stop_instruction.some) =>
          state' = ScheduledOrPlaying(state.play_info, None)]_vars

\* A start call found a ScheduledOrPlaying clip and left it ScheduledOrPlaying
\* at a position inside a pass that no difference of cursor and start position
\* yields: the call did not reschedule, it cancelled a stop.
C12_Witness ==
    /\ last_op \in {"schedule_start", "start_immediately"}
    /\ found.kind = "ScheduledOrPlaying"
    /\ state.kind = "ScheduledOrPlaying"
    /\ state.stop_instruction = None
    /\ state.play_info.next_block_pos > 0
    /\ state.play_info.next_block_pos % 8 # 0

C14_PlayWhileSuspendingIsKept ==
    [][/\ (state.kind = "Suspending" /\ last_op' = "schedule_start") =>
             \A c \in Positions, p \in Positions, r \in BOOLEAN :
                 ScheduleStart(c, p, r) =>
                     state' = Suspending(PlayWhileSuspending(c - p),
                                         state.play_info,
                                         state.transition_countdown)
       /\ (/\ state.kind = "Suspending"
           /\ state.reason.tag = "PlayWhileSuspending"
           /\ state'.kind # "Suspending") =>
             state' = ScheduledOrPlaying(PlayInfo(state.reason.next_block_pos),
                                         None)]_vars

\* A block has ended a suspension during which a start was requested for a
\* position ahead of the cursor: the clip is in count-in.
C14_Witness ==
    /\ last_op = "get_samples"
    /\ found = [kind |-> "Suspending", reason |-> "PlayWhileSuspending"]
    /\ state.kind = "ScheduledOrPlaying"
    /\ state.play_info.next_block_pos < 0
    /\ state.stop_instruction = None

\* C15: schedule_start on a Paused{next_block_pos = p} clip makes it
\* ScheduledOrPlaying with next_block_pos = p and no stop instruction, whatever
\* cursor_pos and start_pos are.
C15_StartResumesPausedClip ==
    [][(/\ last_op' \in {"schedule_start", "start_immediately"}
        /\ state.kind = "Paused") =>
          state' = ScheduledOrPlaying(PlayInfo(state.next_block_pos), None)]_vars

\* A start call found a clip that was paused inside its first pass and resumed
\* it there.
C15_Witness ==
    /\ last_op = "schedule_start"
    /\ found.kind = "Paused"
    /\ state.kind = "ScheduledOrPlaying"
    /\ state.play_info.next_block_pos > 0

\* C16: pause on a clip that is actually playing (ScheduledOrPlaying,
\* next_block_pos >= 0) moves it to Suspending{Pause} with the fade length as
\* countdown and the same play_info; and the step that ends a
\* Suspending{Pause} leaves the clip Paused at the next_block_pos the
\* suspension held.
C16_PauseFadesThenPauses ==
    [][/\ (/\ last_op' = "pause"
           /\ state.kind = "ScheduledOrPlaying"
           /\ state.play_info.next_block_pos >= 0) =>
             state' = Suspending(PauseReason, state.play_info,
                                 start_end_fade_length)
       /\ (/\ state.kind = "Suspending"
           /\ state.reason = PauseReason
           /\ state.play_info.next_block_pos >= 0
           /\ state'.kind # "Suspending") =>
             state' = Paused(state.play_info.next_block_pos)]_vars

\* A block has ended a Suspending{Pause} and the clip is paused inside its
\* first pass.
C16_Witness ==
    /\ last_op = "get_samples"
    /\ found = [kind |-> "Suspending", reason |-> "Pause"]
    /\ state.kind = "Paused"
    /\ state.next_block_pos > 0

\* C17: a pause, stop_immediately or start call on a Suspending clip keeps it
\* Suspending with the same play_info and transition_countdown and sets the
\* reason of that call (Pause, Stop, PlayWhileSuspending); no other step that
\* stays in the suspension changes the reason; and the step that ends the
\* suspension enters the state of its reason: Paused, Stopped or
\* ScheduledOrPlaying.
C17_LastRequestWins ==
    [][state.kind = "Suspending" =>
          /\ last_op' \in {"pause", "stop_immediately", "schedule_start",
                           "start_immediately"} =>
                /\ state'.kind = "Suspending"
                /\ state'.play_info = state.play_info
                /\ state'.transition_countdown = state.transition_countdown
                /\ state'.reason.tag =
                       CASE last_op' = "pause" -> "Pause"
                         [] last_op' = "stop_immediately" -> "Stop"
                         [] OTHER -> "PlayWhileSuspending"
          /\ (/\ state'.kind = "Suspending"
              /\ last_op' \notin {"pause", "stop_immediately", "schedule_start",
                                  "start_immediately"}) =>
                state'.reason = state.reason
          /\ state'.kind # "Suspending" =>
                state'.kind =
                    CASE state.reason.tag = "Pause" -> "Paused"
                      [] state.reason.tag = "Stop" -> "Stopped"
                      [] OTHER -> "ScheduledOrPlaying"]_vars

\* stop_immediately has retargeted a pause fade-out that was under way: the
\* countdown is the one the blocks rendered so far have left.
C17_Witness ==
    /\ last_op = "stop_immediately"
    /\ found = [kind |-> "Suspending", reason |-> "Pause"]
    /\ state.kind = "Suspending"
    /\ state.reason = StopReason
    /\ state.transition_countdown < start_end_fade_length

\* C18: a clip is never in a suspension in which blocks totalling the fade
\* length or more have been rendered with a running timeline, whatever
\* control operations came between the blocks; for audio material a rendered
\* block that leaves the clip suspending has decreased transition_countdown by
\* the block duration, and the suspension goes on exactly while the countdown
\* stays positive; for MIDI material one rendered block ends the suspension.
C18_SuspensionEndsWithinFade ==
    [][/\ state'.kind = "Suspending" => faded' < start_end_fade_length
       /\ (state.kind = "Suspending" /\ last_op' = "get_samples") =>
             \A d \in BlockDurations, t \in Tempos :
                 GetSamples(TRUE, d, t) =>
                     IF is_midi
                     THEN state'.kind # "Suspending"
                     ELSE IF state.transition_countdown - d > 0
                          THEN state' = Suspending(
                                            state.reason, state.play_info,
                                            state.transition_countdown - d)
                          ELSE state'.kind # "Suspending"]_vars

\* An audio clip is in the middle of a fade-out: a block has been rendered in
\* this suspension and the countdown has gone down by as much.
C18_Witness ==
    /\ ~is_midi
    /\ last_op = "get_samples"
    /\ state.kind = "Suspending"
    /\ faded > 0
    /\ faded + state.transition_countdown = start_end_fade_length

\* C19: a step enters Suspending only by schedule_start, start_immediately,
\* pause or stop_immediately; a block rendered for a ScheduledOrPlaying clip
\* leaves it Stopped when the block's stop countdown minus the block duration
\* is <= 0, and ScheduledOrPlaying otherwise.
C19_RenderingNeverSuspends ==
    [][/\ (state.kind # "Suspending" /\ state'.kind = "Suspending") =>
             last_op' \in {"schedule_start", "start_immediately", "pause",
                           "stop_immediately"}
       /\ (state.kind = "ScheduledOrPlaying" /\ last_op' = "get_samples") =>
             \A d \in BlockDurations, t \in Tempos :
                 GetSamples(TRUE, d, t) =>
                     IF /\ block'.stop_countdown.some
                        /\ block'.stop_countdown.value - d <= 0
                     THEN state' = Stopped
                     ELSE state'.kind = "ScheduledOrPlaying"]_vars

\* A block has taken a playing clip to its end: the stop countdown of the
\* block was positive and the clip is Stopped.
C19_Witness ==
    /\ last_op = "get_samples"
    /\ found.kind = "ScheduledOrPlaying"
    /\ state = Stopped
    /\ block.stop_countdown.some
    /\ block.stop_countdown.value > 0

\* C20: a block rendered while the clip is Stopped or Paused asks for no
\* samples, emits no MIDI events and leaves the clip state (with the paused
\* resume position) and the repetition unchanged.
C20_StoppedAndPausedRenderNothing ==
    [][(state.kind \in {"Stopped", "Paused"} /\ last_op' = "get_samples") =>
          /\ state' = state
          /\ repetition' = repetition
          /\ block'.midi_events = << >>
          /\ ~block'.queried]_vars

\* A block has been rendered for a clip that was paused inside its first pass
\* with a finite repetition, and the clip is paused there still.
C20_Witness ==
    /\ last_op = "get_samples"
    /\ found.kind = "Paused"
    /\ state.kind = "Paused"
    /\ state.next_block_pos > 0
    /\ repetition.tag = "Times"

C22_NegativePosOnlyWhenScheduled ==
    /\ state.kind = "Suspending" => state.play_info.next_block_pos >= 0
    /\ state.kind = "Paused" => state.next_block_pos >= 0

\* stop_immediately found a clip in count-in and stopped it at once, without
\* a suspension that would carry the negative position.
C22_Witness ==
    /\ last_op = "stop_immediately"
    /\ found.kind = "ScheduledOrPlaying"
    /\ state = Stopped

\* C23: commit_recording on a Recorder that is recording audio returns an
\* error and leaves it in Recording state with the same audio sub-state (sink,
\* temporary buffer, next_record_start_frame), the same old_source and the same
\* project; a rollback_recording that follows does what it would have done
\* without the commit.
C23_AudioCommitFailsAtomically ==
    [][/\ recorder_op' = "commit_recording"
       /\ recorder.kind = "Recording"
       /\ recorder.sub_state.kind = "Audio"
       => /\ ~recorder_result'.ok
          /\ recorder'.kind = "Recording"
          /\ recorder'.sub_state.kind = "Audio"
          /\ recorder'.sub_state.sink = recorder.sub_state.sink
          /\ recorder'.sub_state.temporary_audio_buffer
                 = recorder.sub_state.temporary_audio_buffer
          /\ recorder'.sub_state.next_record_start_frame
                 = recorder.sub_state.next_record_start_frame
          /\ recorder'.old_source = recorder.old_source
          /\ recorder'.project = recorder.project
          /\ rollback_recording(recorder') = rollback_recording(recorder)]_vars

C23_Witness ==
    /\ recorder_op = "commit_recording"
    /\ ~recorder_result.ok
    /\ recorder.kind = "Recording"
    /\ recorder.sub_state.kind = "Audio"
    /\ recorder.sub_state.next_record_start_frame > 0
    /\ recorder.old_source.some

\* C24: commit_recording on a Recorder that is recording MIDI succeeds and
\* leaves it Ready with the newly recorded source; the old source is dropped,
\* so from then on (until a new recording is prepared) the Recorder is Ready
\* with a source other than the dropped one, whatever rollback_recording calls
\* follow.
C24_MidiCommitDiscardsOldSource ==
    /\ [][/\ recorder_op' = "commit_recording"
          /\ recorder.kind = "Recording"
          /\ recorder.sub_state.kind = "Midi"
          => /\ recorder_result'
                    = Ok(SourceData_from_source(recorder.sub_state.new_source,
                                                recorder.project))
             /\ recorder' = ReadyState(recorder.sub_state.new_source)
             /\ discarded' = recorder.old_source]_vars
    /\ [](discarded.some
            => /\ recorder.kind = "Ready"
               /\ recorder.source.id # discarded.value.id)

C24_Witness ==
    /\ recorder_op = "rollback_recording"
    /\ recorder_result.ok
    /\ discarded.some
    /\ recorder.kind = "Ready"
    /\ recorder.source.events > 0

\* C25: rollback_recording on a Recorder in Recording state returns Ok and
\* leaves it Ready with the saved pre-recording source when old_source is
\* present; when old_source is absent it returns an error and the Recorder
\* stays in the same Recording state, sub-state included.
C25_RollbackInRecording ==
    [][/\ recorder_op' = "rollback_recording"
       /\ recorder.kind = "Recording"
       => IF recorder.old_source.some
          THEN /\ recorder_result'.ok
               /\ recorder' = ReadyState(recorder.old_source.value)
          ELSE /\ ~recorder_result'.ok
               /\ recorder' = recorder]_vars

C25_Witness ==
    /\ recorder_op = "rollback_recording"
    /\ ~recorder_result.ok
    /\ recorder.kind = "Recording"
    /\ ~recorder.old_source.some
    /\ recorder.sub_state.kind = "Midi"
    /\ recorder.sub_state.new_source.events > 0

\* C26: on a Recorder in Ready state both commit_recording and
\* rollback_recording return an error, and the Recorder remains Ready with the
\* same source.
C26_ReadyRejectsCommitAndRollback ==
    [][/\ recorder.kind = "Ready"
       /\ recorder_op' \in {"commit_recording", "rollback_recording"}
       => /\ ~recorder_result'.ok
          /\ recorder' = recorder]_vars

\* Distances of the position asked for from the loop boundaries around it
FadePosWithinClip ==
    (fade_pos + fade_calculator.clip_cursor_offset) % fade_calculator.clip_length

\* C27 as stated: calculate_fade_factor returns exactly 0 for every position
\* < 0 or >= end_pos, and exactly 1 for every position between them whose
\* distance to position 0, to end_pos and to the loop boundaries before and
\* after it is at least start_end_fade_length.
C27_OneBeyondStartEndFade ==
    LET c == fade_calculator
    IN /\ (fade_pos < 0 \/ fade_pos >= c.end_pos)
          => (fade_factor.num = 0 /\ fade_factor.den = 1)
       /\ /\ fade_pos >= 0
          /\ fade_pos < c.end_pos
          /\ fade_pos >= c.start_end_fade_length
          /\ c.end_pos - fade_pos >= c.start_end_fade_length
          /\ FadePosWithinClip >= c.start_end_fade_length
          /\ c.clip_length - FadePosWithinClip >= c.start_end_fade_length
          => (fade_factor.num = 1 /\ fade_factor.den = 1)

\* C27 amended: calculate_fade_factor returns exactly 0 for every position
\* < 0 or >= end_pos, and exactly 1 for every position between them whose
\* distance to position 0 and to end_pos is at least start_end_fade_length and
\* whose distance to the loop boundaries before and after it is at least
\* intermediate_fade_length.
C27_OneBeyondBothFades ==
    LET c == fade_calculator
    IN /\ (fade_pos < 0 \/ fade_pos >= c.end_pos)
          => (fade_factor.num = 0 /\ fade_factor.den = 1)
       /\ /\ fade_pos >= 0
          /\ fade_pos < c.end_pos
          /\ fade_pos >= c.start_end_fade_length
          /\ c.end_pos - fade_pos >= c.start_end_fade_length
          /\ FadePosWithinClip >= c.intermediate_fade_length
          /\ c.clip_length - FadePosWithinClip >= c.intermediate_fade_length
          => (fade_factor.num = 1 /\ fade_factor.den = 1)

\* A position clear of a loop fade that is longer than the edge fade.
C27_Witness ==
    /\ fade_pos >= 0
    /\ fade_factor = Fraction(1, 1)
    /\ fade_calculator.start_end_fade_length > 0
    /\ fade_calculator.intermediate_fade_length
           > fade_calculator.start_end_fade_length

\* C28: after set_repeated(false) on a playing clip, rendering block after
\* block with a running timeline and no further control operation eventually
\* brings the clip to Stopped.
C28_PlaysOutAndStops == AwaitingNaturalStop ~> (state = Stopped)

\* C29: in every rendered ScheduledOrPlaying block the stop countdown is None
\* when the repetition is infinite and no stop instruction is set; otherwise it
\* is the smaller of the time to the end of the last repeat and the time the
\* stop instruction resolves to (both never below 0), and the clip stops with
\* the block in which that countdown runs out.
C29_EarlierStopWins ==
    [][/\ last_op' = "get_samples"
       /\ state.kind = "ScheduledOrPlaying"
       /\ block' # NoBlock
       => LET len == block'.clip_length.value
              pos == state.play_info.next_block_pos
              si == state.stop_instruction
              AtLeastZero(x) == IF x < 0 THEN 0 ELSE x
              natural ==
                  IF repetition.tag = "Infinitely" THEN {}
                  ELSE {AtLeastZero(len * (IF repetition.n < 1 THEN 1
                                           ELSE repetition.n) - pos)}
              explicit ==
                  IF ~si.some THEN {}
                  ELSE IF si.value.tag = "In" THEN {si.value.countdown}
                  ELSE {AtLeastZero(len * (si.value.cycle + 1) - pos)}
              both == natural \cup explicit
          IN IF both = {}
             THEN /\ block'.stop_countdown = None
                  /\ state'.kind = "ScheduledOrPlaying"
             ELSE /\ block'.stop_countdown.some
                  /\ block'.stop_countdown.value \in both
                  /\ \A c \in both : block'.stop_countdown.value <= c
                  /\ state' = Stopped
                        => \E d \in BlockDurations :
                               block'.stop_countdown.value <= d
                  /\ (\A d \in BlockDurations :
                          block'.stop_countdown.value <= d)
                        => state' = Stopped]_vars

\* A block in which the stop instruction runs out before the last repeat.
C29_Witness ==
    /\ last_op = "get_samples"
    /\ found.kind = "ScheduledOrPlaying"
    /\ state.kind = "ScheduledOrPlaying"
    /\ repetition.tag = "Times"
    /\ state.stop_instruction.some
    /\ state.stop_instruction.value.tag = "In"
    /\ block.stop_countdown.some
    /\ block.stop_countdown.value
           < block.clip_length.value * repetition.n - block.block_start_pos.value

\* A ClipState whose durations (DurationInSeconds, which cannot be built from a
\* negative number) are not negative.
DurationsValid(s) ==
    CASE s.kind = "Paused" -> s.next_block_pos >= 0
      [] s.kind = "Suspending" -> s.transition_countdown >= 0
      [] s.kind = "ScheduledOrPlaying" ->
            (s.stop_instruction.some /\ s.stop_instruction.value.tag = "In")
                => s.stop_instruction.value.countdown >= 0
      [] OTHER -> TRUE

\* C30: on a Stopped clip pause, schedule_stop, stop_immediately and seek_to
\* leave the state Stopped and the repetition unchanged; and every transport
\* control operation, in every state, ends with a clip state (no operation
\* has a failure to report) whose durations are valid, so none of them makes
\* a duration from a negative number.
C30_RedundantRequestsAreNoOps ==
    [][last_op' \in {"schedule_start", "start_immediately", "pause",
                     "schedule_stop", "stop_immediately", "seek_to"}
       => /\ state'.kind \in {"Stopped", "ScheduledOrPlaying", "Suspending",
                              "Paused"}
          /\ DurationsValid(state')
          /\ (/\ state = Stopped
              /\ last_op' \in {"pause", "schedule_stop", "stop_immediately",
                               "seek_to"})
                => (state' = Stopped /\ repetition' = repetition)]_vars

\* seek_to on a clip that was stopped after playing in a loop.
C30_Witness ==
    /\ last_op = "seek_to"
    /\ found.kind = "Stopped"
    /\ state = Stopped
    /\ repetition = Infinitely

\* C31: start_immediately(cursor_pos, repeated) does what
\* schedule_start(cursor_pos, cursor_pos, repeated) does: from every clip state
\* the state and the repetition it leaves are those that schedule_start with
\* start_pos = cursor_pos leaves, and from Stopped the clip is at
\* next_block_pos 0.
C31_StartImmediatelyIsScheduleStartAtCursor ==
    [][last_op' = "start_immediately"
       => /\ \E c \in Positions, r \in BOOLEAN :
                 /\ StartImmediately(c, r)
                 /\ LET x == start_internal(state, repetition, c, c, r)
                    IN /\ state' = x.state
                       /\ repetition' = x.repetition
          /\ state = Stopped
                => /\ state'.kind = "ScheduledOrPlaying"
                   /\ state'.play_info.next_block_pos = 0
                   /\ state'.stop_instruction = None]_vars

\* start_immediately has started a stopped clip for a single pass.
C31_Witness ==
    /\ last_op = "start_immediately"
    /\ found.kind = "Stopped"
    /\ state = ScheduledOrPlaying(PlayInfo(0), None)
    /\ repetition = Times(1)

\* C32: a block rendered in ScheduledOrPlaying that does not end in Stopped
\* moves next_block_pos to p = old next_block_pos + block duration x final
\* tempo factor when p < 0, and otherwise to the position in [0, clip length)
\* that differs from p by a whole number of clip lengths; so after the block
\* next_block_pos < clip length, and a block that ends before the start point
\* (p < 0) asks for no samples and emits no events.
C32_RenderAdvancesModuloClipLength ==
    [][/\ last_op' = "get_samples"
       /\ state.kind = "ScheduledOrPlaying"
       /\ state'.kind = "ScheduledOrPlaying"
       /\ block' # NoBlock
       => LET len == block'.clip_length.value
              final_tempo_factor == (native_clip_length * 4) \div len
              new_pos == state'.play_info.next_block_pos
          IN /\ new_pos < len
             /\ \E d \in BlockDurations :
                    LET p == state.play_info.next_block_pos
                                 + (d * final_tempo_factor) \div 4
                    IN IF p < 0
                       THEN /\ new_pos = p
                            /\ ~block'.queried
                            /\ block'.midi_events = << >>
                       ELSE /\ new_pos >= 0
                            /\ \E k \in 0..p : p = new_pos + k * len
                            /\ block'.queried]_vars

\* A block that crossed the end of the clip and continued at its beginning.
C32_Witness ==
    /\ last_op = "get_samples"
    /\ found.kind = "ScheduledOrPlaying"
    /\ state.kind = "ScheduledOrPlaying"
    /\ block.block_start_pos.some
    /\ block.block_start_pos.value > 0
    /\ state.play_info.next_block_pos < block.block_start_pos.value

\* C33: on a started, infinitely repeating clip without stop instruction,
\* schedule_stop with At(p), p >= cursor, stores In(p - cursor) and keeps
\* play_info; and every block rendered while such an instruction In(cd) is
\* stored either ends in Stopped, when cd <= block duration, or leaves the
\* clip playing with In(cd - block duration), which is above 0, when
\* cd > block duration.
C33_ScheduledStopCountsDown ==
    /\ [](/\ state.kind = "ScheduledOrPlaying"
          /\ state.play_info.next_block_pos >= 0
          /\ state.stop_instruction = None
          /\ repetition = Infinitely
          => \A c \in Positions, p \in Positions, t \in Tempos :
                 p >= c
                    => schedule_stop(state, repetition, manual_tempo_factor,
                                     c, t, At(p))
                         = ScheduledOrPlaying(state.play_info,
                                              Some(In(p - c))))
    /\ [][/\ last_op' = "get_samples"
          /\ state.kind = "ScheduledOrPlaying"
          /\ block' # NoBlock
          /\ repetition = Infinitely
          /\ state.stop_instruction.some
          /\ state.stop_instruction.value.tag = "In"
          => LET cd == state.stop_instruction.value.countdown
             IN /\ block'.stop_countdown = Some(cd)
                /\ \E d \in BlockDurations :
                       IF cd <= d
                       THEN state' = Stopped
                       ELSE /\ state'.kind = "ScheduledOrPlaying"
                            /\ state'.stop_instruction = Some(In(cd - d))
                            /\ cd - d > 0]_vars

\* A block has brought the countdown of a scheduled stop down, and the clip
\* still plays.
C33_Witness ==
    /\ last_op = "get_samples"
    /\ found.kind = "ScheduledOrPlaying"
    /\ repetition = Infinitely
    /\ state.kind = "ScheduledOrPlaying"
    /\ state.stop_instruction.some
    /\ state.stop_instruction.value.tag = "In"
    /\ state.stop_instruction.value.countdown > 0
    /\ block.stop_countdown.some
    /\ block.stop_countdown.value > state.stop_instruction.value.countdown

\* C34: write_audio and write_midi on a Ready Recorder leave the Recorder, and
\* with it the content of the ready source, unchanged; and on a Recording
\* Recorder write_audio changes nothing during a MIDI recording and
\* write_midi changes nothing during an audio recording.
C34_WritesOnlyWhileRecording ==
    [][recorder_op' \in {"write_audio", "write_midi"}
       => /\ recorder.kind = "Ready" => recorder' = recorder
          /\ (/\ recorder.kind = "Recording"
              /\ recorder.sub_state.kind = "Midi"
              /\ recorder_op' = "write_audio") => recorder' = recorder
          /\ (/\ recorder.kind = "Recording"
              /\ recorder.sub_state.kind = "Audio"
              /\ recorder_op' = "write_midi") => recorder' = recorder]_vars

\* The state in which n more blocks of duration d at tempo t leave a clip that
\* is in state s, rendering no further once the suspension is over.
RECURSIVE AfterSuspension(_, _, _, _)
AfterSuspension(s, d, t, n) ==
    IF n = 0 \/ s.kind # "Suspending" THEN s
    ELSE AfterSuspension(
             get_samples_internal(s, repetition, manual_tempo_factor, is_midi,
                                  d, t).state,
             d, t, n - 1)

\* C35: when a clip that plays and is scheduled to stop is paused, the stop
\* instruction is gone: the pause leaves Suspending{Pause} with the same
\* play_info, the blocks that end the suspension leave Paused at that
\* position, and a schedule_start that resumes it leaves ScheduledOrPlaying at
\* that position with stop_instruction = None.
C35_PauseDiscardsPendingStop ==
    /\ state.kind = "ScheduledOrPlaying"
    /\ state.stop_instruction.some
    /\ state.play_info.next_block_pos >= 0
    => \A c \in Positions, d \in BlockDurations, t \in Tempos :
           LET s1 == pause(state, c)
               s2 == AfterSuspension(s1, d, t, start_end_fade_length)
           IN /\ s1 = Suspending(PauseReason, state.play_info,
                                 start_end_fade_length)
              /\ s2 = Paused(state.play_info.next_block_pos)
              /\ \A c2 \in Positions, p \in Positions, r \in BOOLEAN :
                     start_internal(s2, repetition, c2, p, r).state
                         = ScheduledOrPlaying(
                               PlayInfo(state.play_info.next_block_pos), None)

\* An audio clip inside its pass with a stop scheduled for the end of the
\* cycle: the clip that the pause finds.
C35_Witness ==
    /\ last_op = "schedule_stop"
    /\ ~is_midi
    /\ state.kind = "ScheduledOrPlaying"
    /\ state.play_info.next_block_pos > 0
    /\ state.stop_instruction.some
    /\ state.stop_instruction.value.tag = "AtEndOfCycle"
    /\ repetition = Infinitely

\* C36: a get_samples call made while the timeline is not running puts
\* nothing into the block and leaves the clip state and the repetition as
\* they are, in every state: a Suspending clip keeps reason, play_info and
\* transition_countdown, a ScheduledOrPlaying clip keeps next_block_pos and
\* stop instruction.
C36_PausedTimelineRendersNothing ==
    [][last_op' = "get_samples"
       => \A d \in BlockDurations, t \in Tempos :
              GetSamples(FALSE, d, t)
                 => /\ state' = state
                    /\ block' = NoBlock
                    /\ repetition' = repetition
                    /\ manual_tempo_factor' = manual_tempo_factor]_vars

\* A call with the timeline not running has found a suspension in which a
\* block was already faded, and left it as it was.
C36_Witness ==
    /\ last_op = "get_samples"
    /\ found.kind = "Suspending"
    /\ state.kind = "Suspending"
    /\ faded > 0
    /\ block = NoBlock

\* C37: as long as a clip stays Suspending its play_info does not change,
\* whatever is called (rendering, pause, stop_immediately, schedule_start,
\* schedule_stop, seek_to, set_repeated); every block faded out during the
\* suspension starts at that position; and the step that ends a
\* Suspending{Pause} leaves the clip Paused at that position.
C37_SuspensionFreezesPosition ==
    [][state.kind = "Suspending"
       => /\ state'.kind = "Suspending"
                => state'.play_info = state.play_info
          /\ (last_op' = "get_samples" /\ block'.block_start_pos.some)
                => block'.block_start_pos
                       = Some(state.play_info.next_block_pos)
          /\ (state.reason = PauseReason /\ state'.kind # "Suspending")
                => state' = Paused(state.play_info.next_block_pos)]_vars

\* A block was faded out in a suspension that a stop request started inside
\* the pass, and the suspension goes on.
C37_Witness ==
    /\ last_op = "get_samples"
    /\ found = [kind |-> "Suspending", reason |-> "Stop"]
    /\ state.kind = "Suspending"
    /\ state.play_info.next_block_pos > 0
    /\ block.block_start_pos = Some(state.play_info.next_block_pos)
    /\ faded > 0

\* C38: prepare_recording keeps the pre-recording source across nested
\* recordings.  From Ready(s), a prepare_recording, a commit attempt that
\* fails, a second prepare_recording and a rollback_recording give Ready(s)
\* again; as long as the Recorder stays in Recording state, whatever is
\* called, old_source stays what the first prepare_recording saved, and stays
\* absent when the Recorder was constructed recording.
C38_OldSourceSurvivesNestedRecordings ==
    /\ [](recorder.kind = "Ready"
            => \A i1 \in ClipRecordInputs, i2 \in ClipRecordInputs,
                  p1 \in Projects, p2 \in Projects :
                   LET r1 == prepare_recording(recorder, i1, p1, sources_created)
                       c1 == commit_recording(r1)
                       r2 == prepare_recording(c1.state, i2, p2,
                                               sources_created + 1)
                       c2 == commit_recording(r2)
                   IN /\ rollback_recording(r1)
                            = [res |-> Ok("unit"), state |-> recorder]
                      /\ ~c1.res.ok
                           => /\ rollback_recording(r2)
                                    = [res |-> Ok("unit"), state |-> recorder]
                              /\ ~c2.res.ok
                                   => rollback_recording(c2.state)
                                        = [res |-> Ok("unit"),
                                           state |-> recorder])
    /\ [][/\ recorder_op' = "prepare_recording"
             => recorder'.old_source
                  = IF recorder.kind = "Ready" THEN Some(recorder.source)
                    ELSE recorder.old_source
          /\ (recorder.kind = "Recording" /\ recorder'.kind = "Recording")
                => recorder'.old_source = recorder.old_source]_vars

\* A second recording has been prepared, and the source from before the first
\* is still the one kept for a rollback.
C38_Witness ==
    /\ recorder_op = "prepare_recording"
    /\ recorder.kind = "Recording"
    /\ recorder.old_source = Some(Source(0, 0))
    /\ sources_created = 3
    /\ discarded = None

\* C39: in every reachable state a ScheduledOrPlaying clip that carries a stop
\* instruction has next_block_pos >= 0: a clip in count-in is never scheduled
\* to stop.
C39_NoStopInstructionInCountIn ==
    (state.kind = "ScheduledOrPlaying" /\ state.stop_instruction.some)
        => state.play_info.next_block_pos >= 0

\* seek_to has moved a clip that is scheduled to stop back to its beginning.
C39_Witness ==
    /\ last_op = "seek_to"
    /\ found.kind = "ScheduledOrPlaying"
    /\ state.kind = "ScheduledOrPlaying"
    /\ state.stop_instruction.some
    /\ state.stop_instruction.value.tag = "In"
    /\ state.play_info.next_block_pos = 0

\* C40: schedule_start and start_immediately set the repetition from the
\* repeated argument (Infinitely for true, Times(1) for false) when the clip
\* is Stopped, in count-in without stop instruction, or Suspending; in every
\* other state (scheduled to stop, playing, Paused) they leave the repetition
\* as it is.
C40_StartSetsRepetitionOnlyWhenScheduling ==
    [][last_op' \in {"schedule_start", "start_immediately"}
       => LET sets == \/ state.kind \in {"Stopped", "Suspending"}
                      \/ /\ state.kind = "ScheduledOrPlaying"
                         /\ ~state.stop_instruction.some
                         /\ state.play_info.next_block_pos < 0
          IN IF sets
             THEN \A r \in BOOLEAN :
                      (\E c \in Positions, p \in Positions :
                           start_internal(state, repetition, c, p, r)
                               = [state |-> state', repetition |-> repetition'])
                         => repetition' = IF r THEN Infinitely ELSE Times(1)
             ELSE repetition' = repetition]_vars

\* A start call has resumed a paused clip whose repetition, Times(2), is not
\* one that a start call sets.
C40_Witness ==
    /\ last_op = "start_immediately"
    /\ found.kind = "Paused"
    /\ state.kind = "ScheduledOrPlaying"
    /\ repetition = Times(2)

====
